---- MODULE Spec2Model ----
(***************************************************************************)
(* Model of 001-key-data-extraction.py: a script that reads GROQ_API_KEY,  *)
(* builds a prompt | llm.with_structured_output(schema) chain and invokes  *)
(* it three times, printing each result.  The backend (the hosted model)   *)
(* is the environment: it answers every request with an error or with an   *)
(* arbitrary JSON payload.                                                 *)
(***************************************************************************)
EXTENDS Integers, Sequences, FiniteSets, TLC

VARIABLES
  env,       \* names of the variables of os.environ after load_dotenv
  calls,     \* the invocations the caller makes: text, schema, banner
  pc,        \* position of the script
  k,         \* index in calls of the current invocation
  requests,  \* requests sent to the backend so far, in order
  pending,   \* requests sent and not yet answered
  answer,    \* <<>> or <<a>>: the backend's answer to the last request
  response,  \* <<>> or <<r>>: the script's variable `response`
  stdout,    \* what was printed so far
  error      \* the uncaught exception that ended the process, or NoError

vars == <<env, calls, pc, k, requests, pending, answer, response, stdout, error>>

----------------------------------------------------------------------------
(* Bounds of the model.                                                    *)

\* keys present in one backend payload (summed over the people of a list)
MaxKeys == 1
\* length of the people list of a backend payload
MaxPeople == 1
\* tokens of an arbitrary input text
MaxTextLen == 2

----------------------------------------------------------------------------
(* JSON values of a payload.  A payload object is a function from          *)
(* PayloadKeys to a value; Missing encodes "the key is not in the object". *)

Missing == "<missing>"
None == "<null>"
NotStr == "<list>"             \* a value that is neither null nor a string
Strs == {"s"}
Values == {Missing, None, NotStr} \cup Strs

PayloadKeys == {"name", "lastname", "country", "Email", "email"}

NoError == "none"

----------------------------------------------------------------------------
(* The schemas.                                                            *)

PersonWithEmail ==
  [title |-> "Person", kind |-> "object",
   fields |-> {"name", "lastname", "country", "Email"}]

\* class Person, first definition: three Optional[str] fields, default None
Person ==
  [title |-> "Person", kind |-> "object",
   fields |-> {"name", "lastname", "country"}]

\* class Person, second definition: adds the field Email
Person2 ==
  [title |-> "Person", kind |-> "object",
   fields |-> {"name", "lastname", "country", "Email"}]

\* class Data: people: List[Person], required, Person being the second class
Data ==
  [title |-> "Data", kind |-> "list", fields |-> Person2.fields]

Schemas == {Person, Data}

----------------------------------------------------------------------------
(* Texts are sequences of tokens.                                          *)

Placeholder == "{text}"
PersonTokens ==
  {"Riyadh", "Bangladesh", "Emily Clarke", "Canada",
   "riyadhgenai@gmail.com", "Bob Smith", "USA"}

\* comment, line 62
Comment1 == <<"I absolutely love this product! ... - ", "Riyadh", "Bangladesh">>
\* comment, line 112
Comment2 == <<"I'm so impressed with this product! ... - ", "Emily Clarke", "Canada">>
\* text_input, lines 126-128: the literal starts and ends with a newline
TextInput ==
  <<"\n", "Riyadh", "riyadhgenai@gmail.com", "Bangladesh", "recently reviewed",
    "Bob Smith", "USA", "Both reviews were very insightful.", "\n">>

HasPersonInfo(text) == \E i \in 1..Len(text) : text[i] \in PersonTokens

\* the system message of the prompt, lines 50-55
SystemMessage ==
  <<"You are an expert extraction algorithm. ",
    "Only extract relevant information from the text. ",
    "If you do not know the value of an attribute asked to extract, ",
    "return null for the attribute's value.">>

\* prompt, lines 47-58: the message templates
prompt ==
  <<[role |-> "system", template |-> SystemMessage],
    [role |-> "human", template |-> <<Placeholder>>]>>

RECURSIVE FormatStripped(_, _)
FormatStripped(template, text) ==
  IF template = <<>> THEN <<>>
  ELSE LET sub == IF Head(template) = Placeholder
                  THEN SelectSeq(text, LAMBDA t : t # "\n" /\ t # Placeholder)
                  ELSE <<Head(template)>>
       IN sub \o FormatStripped(Tail(template), text)

\* one formatting pass over a template: each placeholder token is replaced
\* by the text, every other token is copied; the text is not formatted again
RECURSIVE Format(_, _)
Format(template, text) ==
  IF template = <<>> THEN <<>>
  ELSE (IF Head(template) = Placeholder THEN text ELSE <<Head(template)>>)
       \o Format(Tail(template), text)

\* prompt.invoke({"text": text}): the messages of the request
FormatMessages(text) ==
  [i \in 1..Len(prompt) |->
     [role |-> prompt[i].role, content |-> Format(prompt[i].template, text)]]

\* llm, lines 8-11, bound to the schema by with_structured_output
Request(text, schema) ==
  [model |-> "llama-3.1-8b-instant", temperature |-> 0,
   messages |-> FormatMessages(text), schema |-> schema]

----------------------------------------------------------------------------
(* Validation of a payload against a schema.                               *)

Fail == [ok |-> FALSE, value |-> <<>>]

FieldAcceptsStrOnly(v) == v \in Strs

\* Optional[str]: a missing key, null and a string are accepted
FieldAccepts(v) == v \in {Missing, None} \cup Strs

FieldPlaceholder(v) == IF v \in {Missing, None} THEN "unknown" ELSE v

\* Field(default=None): a missing key takes the default
FieldValue(v) == IF v = Missing THEN None ELSE v

RecordFieldsWithExtra(schema) == PayloadKeys

\* the fields a record of the schema holds: the declared ones only
RecordFields(schema) == schema.fields

\* Person(**obj): every declared field is validated, other keys are ignored
ValidatePerson(schema, obj) ==
  IF \A f \in schema.fields : FieldAccepts(obj[f])
  THEN [ok |-> TRUE,
        value |-> [f \in RecordFields(schema) |-> FieldValue(obj[f])]]
  ELSE Fail

ValidateDataDefaulted(obj) ==
  LET items == IF obj.people.tag = "list" THEN obj.people.items ELSE <<>>
      ok(i) == items[i].isObj /\ ValidatePerson(Person2, items[i].obj).ok
  IN IF \A i \in 1..Len(items) : ok(i)
     THEN [ok |-> TRUE,
           value |-> [people |->
              [i \in 1..Len(items) |-> ValidatePerson(Person2, items[i].obj).value]]]
     ELSE Fail

\* Data(**obj): people is required and must be a list of Person objects
ValidateData(obj) ==
  IF obj.people.tag # "list" THEN Fail
  ELSE LET items == obj.people.items
           ok(i) == items[i].isObj /\ ValidatePerson(Person2, items[i].obj).ok
       IN IF \A i \in 1..Len(items) : ok(i)
          THEN [ok |-> TRUE,
                value |-> [people |->
                   [i \in 1..Len(items) |->
                      ValidatePerson(Person2, items[i].obj).value]]]
          ELSE Fail

\* the output parser installed by with_structured_output(schema=...)
Validate(schema, obj) ==
  IF schema.kind = "object" THEN ValidatePerson(schema, obj)
  ELSE ValidateData(obj)

----------------------------------------------------------------------------
(* What the backend may answer.                                            *)

Present(obj) == {key \in PayloadKeys : obj[key] # Missing}

PersonPayloads ==
  {obj \in [PayloadKeys -> Values] : Cardinality(Present(obj)) <= MaxKeys}

EmptyObj == [key \in PayloadKeys |-> Missing]

\* an element of a people list: a JSON object or something else
Elements ==
  {[isObj |-> TRUE, obj |-> obj] : obj \in PersonPayloads}
    \cup {[isObj |-> FALSE, obj |-> EmptyObj]}

ElementSize(e) == IF e.isObj THEN Cardinality(Present(e.obj)) ELSE 1

\* the people lists of at most n elements holding at most budget keys
RECURSIVE ListsWithin(_, _)
ListsWithin(n, budget) ==
  IF n = 0 THEN {<<>>}
  ELSE {<<>>} \cup
       UNION {{<<e>> \o rest : rest \in ListsWithin(n - 1, budget - ElementSize(e))} :
                e \in {x \in Elements : ElementSize(x) <= budget}}

PeopleLists == ListsWithin(MaxPeople, MaxKeys)

DataPayloads ==
  {[people |-> [tag |-> t, items |-> <<>>]] : t \in {"missing", "null", "notlist"}}
    \cup {[people |-> [tag |-> "list", items |-> items]] : items \in PeopleLists}

Payloads(schema) ==
  IF schema.kind = "object" THEN PersonPayloads ELSE DataPayloads

Answers(schema) ==
  {[ok |-> FALSE, body |-> <<>>]}
    \cup {[ok |-> TRUE, body |-> obj] : obj \in Payloads(schema)}

----------------------------------------------------------------------------
(* The script.                                                             *)

KeyName == "GROQ_API_KEY"

EnvironGet(environ, key) == "ok"

\* os.environ[key], line 4
EnvironLookup(environ, key) == IF key \in environ THEN "ok" ELSE "KeyError"

\* the three invocations of the file, lines 60-64, 110-114 and 131
Script ==
  <<[text |-> Comment1, schema |-> Person,
     banner |-> "Key data extraction:"],
    [text |-> Comment2, schema |-> Data,
     banner |-> "Key data extraction of a list of entities:"],
    [text |-> TextInput, schema |-> Data,
     banner |-> "Key data extraction of a review with several users:"]>>

TextTokens == {"\n", Placeholder, "review", "Riyadh"}

Texts == UNION {[1..n -> TextTokens] : n \in 0..MaxTextLen}

\* one invocation of a chain on an arbitrary text with either schema
AnyCall ==
  {<<[text |-> t, schema |-> s, banner |-> "Key data extraction:"]>> :
     t \in Texts, s \in Schemas}

Start ==
  /\ env \in SUBSET {KeyName}
  /\ pc = "start"
  /\ k = 1
  /\ requests = <<>>
  /\ pending = {}
  /\ answer = <<>>
  /\ response = <<>>
  /\ stdout = <<>>
  /\ error = NoError

Init == Start /\ calls = Script

InitChain == Start /\ calls \in AnyCall

\* lines 1-11: load the key, construct the client
Startup ==
  /\ pc = "start"
  /\ LET r == EnvironLookup(env, KeyName)
     IN IF r = "ok"
        THEN pc' = "invoke" /\ error' = error
        ELSE pc' = "crashed" /\ error' = r
  /\ UNCHANGED <<env, calls, k, requests, pending, answer, response, stdout>>

InvokeTwice ==
  /\ pc = "invoke"
  /\ k <= Len(calls)
  /\ LET r == Request(calls[k].text, calls[k].schema)
     IN requests' = requests \o <<r, r>>
  /\ pending' = pending \cup {Len(requests) + 1}
  /\ answer' = <<>>
  /\ pc' = "blocked"
  /\ UNCHANGED <<env, calls, k, response, stdout, error>>

\* chain.invoke({"text": ...}), first half: format the prompt, send the request
Invoke ==
  /\ pc = "invoke"
  /\ k <= Len(calls)
  /\ requests' = Append(requests, Request(calls[k].text, calls[k].schema))
  /\ pending' = pending \cup {Len(requests) + 1}
  /\ answer' = <<>>
  /\ pc' = "blocked"
  /\ UNCHANGED <<env, calls, k, response, stdout, error>>

\* the backend answers the request in flight: an error or any payload
BackendRespond ==
  /\ pc = "blocked"
  /\ \E i \in pending :
       /\ pending' = pending \ {i}
       /\ \E a \in Answers(requests[i].schema) : answer' = <<a>>
  /\ pc' = "parse"
  /\ UNCHANGED <<env, calls, k, requests, response, stdout, error>>

ReturnSwallow ==
  /\ pc = "parse"
  /\ LET a == answer[1]
         v == IF a.ok THEN Validate(calls[k].schema, a.body) ELSE Fail
     IN response' = IF v.ok THEN <<v.value>> ELSE <<>>
  /\ pc' = "print"
  /\ UNCHANGED <<env, calls, k, requests, pending, answer, stdout, error>>

ReturnNoWait ==
  /\ pc = "parse"
  /\ LET a == answer[1]
         v == IF a.ok THEN Validate(calls[k].schema, a.body) ELSE Fail
     IN IF ~a.ok
        THEN pc' = "crashed" /\ error' = "BackendError" /\ UNCHANGED <<response, k>>
        ELSE IF ~v.ok
        THEN pc' = "crashed" /\ error' = "ValidationError" /\ UNCHANGED <<response, k>>
        ELSE /\ response' = <<v.value>>
             /\ error' = error
             /\ IF k < Len(calls) THEN pc' = "invoke" /\ k' = k + 1
                                  ELSE pc' = "print" /\ k' = k
  /\ UNCHANGED <<env, calls, requests, pending, answer, stdout>>

\* chain.invoke, second half: the call raises the backend's error, or parses
\* the payload against the schema and raises or assigns `response`
Return ==
  /\ pc = "parse"
  /\ LET a == answer[1]
         v == IF a.ok THEN Validate(calls[k].schema, a.body) ELSE Fail
     IN IF ~a.ok
        THEN pc' = "crashed" /\ error' = "BackendError" /\ response' = response
        ELSE IF ~v.ok
        THEN pc' = "crashed" /\ error' = "ValidationError" /\ response' = response
        ELSE pc' = "print" /\ error' = error /\ response' = <<v.value>>
  /\ UNCHANGED <<env, calls, k, requests, pending, answer, stdout>>

\* the prints that follow an invocation, lines 66-73, 116-123, 134-141
print_response ==
  /\ pc = "print"
  /\ stdout' = Append(stdout, [banner |-> calls[k].banner, body |-> response])
  /\ k' = k + 1
  /\ pc' = IF k < Len(calls) THEN "invoke" ELSE "done"
  /\ UNCHANGED <<env, calls, requests, pending, answer, response, error>>

Next == Startup \/ Invoke \/ BackendRespond \/ Return \/ print_response

\* the script of the repository
Spec == Init /\ [][Next]_vars

\* one invocation on an arbitrary text and schema
SpecChain == InitChain /\ [][Next]_vars

TypeOK ==
  /\ pc \in {"start", "invoke", "blocked", "parse", "print", "done", "crashed"}
  /\ k \in 1..(Len(calls) + 1)
  /\ error \in {NoError, "KeyError", "BackendError", "ValidationError"}
  /\ Len(response) <= 1 /\ Len(answer) <= 1

----------------------------------------------------------------------------
(* Vocabulary of the properties.                                           *)

LastRequest == requests[Len(requests)]

\* the last request was answered with a payload and the call has finished
Finished ==
  /\ answer # <<>>
  /\ answer[1].ok
  /\ pc \in {"print", "invoke", "done", "crashed"}

FinishedOne == Finished /\ LastRequest.schema.kind = "object"

FinishedMany == Finished /\ LastRequest.schema.kind = "list"

Payload == answer[1].body

RaisedValidationError ==
  /\ pc = "crashed"
  /\ error = "ValidationError"
  /\ Len(stdout) = Len(requests) - 1

Absent(obj, fields) == \A f \in fields : obj[f] \in {Missing, None}

WrongType(obj, fields) == \E f \in fields : obj[f] = NotStr

\* the record the schema's fields make of a payload object
RecordOf(obj, fields) ==
  [f \in fields |-> IF obj[f] \in Strs THEN obj[f] ELSE None]

AllObjects(items) == \A i \in 1..Len(items) : items[i].isObj

----------------------------------------------------------------------------
\* C1: when GROQ_API_KEY is missing from the environment the script never
\* leaves its start other than by crashing with KeyError: no request is ever
\* sent or in flight, nothing is printed, and the error is not a backend error.
C1_MissingKeyIsFatalBeforeAnyRequest ==
  KeyName \notin env =>
    /\ requests = <<>>
    /\ pending = {}
    /\ stdout = <<>>
    /\ pc \in {"start", "crashed"}
    /\ (pc = "crashed" => error = "KeyError")
    /\ error \notin {"BackendError", "ValidationError"}

C1_Witness ==
  KeyName \notin env /\ pc = "crashed" /\ error = "KeyError" /\ requests = <<>>

\* C2: for every payload the backend returns, validation drops the fields the
\* schema does not declare, sets the declared fields missing from the payload
\* to None, and fails with a validation error (no record returned, nothing
\* printed) exactly when a declared field holds a value of the wrong type.
C2_ValidationBuildsRecord ==
  /\ FinishedOne =>
       LET fields == LastRequest.schema.fields
       IN IF WrongType(Payload, fields)
          THEN RaisedValidationError
          ELSE pc # "crashed" /\ response = <<RecordOf(Payload, fields)>>
  /\ (FinishedMany /\ Payload.people.tag = "list"
        /\ AllObjects(Payload.people.items)) =>
       LET fields == LastRequest.schema.fields
           items == Payload.people.items
       IN IF \E i \in 1..Len(items) : WrongType(items[i].obj, fields)
          THEN RaisedValidationError
          ELSE /\ pc # "crashed"
               /\ response =
                    <<[people |-> [i \in 1..Len(items) |->
                                     RecordOf(items[i].obj, fields)]]>>

\* an undeclared key of the payload was dropped from a returned record, and
\* an earlier call returned a record whose missing fields were defaulted
C2_Witness ==
  /\ FinishedMany /\ pc = "print"
  /\ Payload.people.tag = "list"
  /\ \E i \in 1..Len(Payload.people.items) :
        /\ Payload.people.items[i].isObj
        /\ Payload.people.items[i].obj["email"] \in Strs
        /\ response[1].people[i] = [f \in Data.fields |-> None]
  /\ Len(stdout) >= 1

\* C3 as stated: every returned record has exactly the four fields name,
\* lastname, country and email.
C3_Original ==
  \A i \in 1..Len(stdout) :
    LET r == stdout[i].body[1]
    IN IF calls[i].schema.kind = "object"
       THEN DOMAIN r = {"name", "lastname", "country", "email"}
       ELSE \A j \in 1..Len(r.people) :
              DOMAIN r.people[j] = {"name", "lastname", "country", "email"}

\* C3 as amended: a record returned by extractOne has exactly the three
\* fields name, lastname and country, so that it carries no email whatever
\* the payload holds; an element of a collection returned by extractMany has
\* exactly the four fields name, lastname, country and Email.  Every field is
\* None or a string.
C3_RecordFields ==
  /\ \A i \in 1..Len(stdout) :
       /\ stdout[i].body # <<>>
       /\ LET r == stdout[i].body[1]
          IN IF calls[i].schema.kind = "object"
             THEN /\ DOMAIN r = {"name", "lastname", "country"}
                  /\ \A f \in DOMAIN r : r[f] \in {None} \cup Strs
             ELSE \A j \in 1..Len(r.people) :
                    /\ DOMAIN r.people[j] = {"name", "lastname", "country", "Email"}
                    /\ \A f \in DOMAIN r.people[j] :
                         r.people[j][f] \in {None} \cup Strs
  /\ (FinishedOne /\ pc = "print") =>
       /\ response # <<>>
       /\ DOMAIN response[1] = {"name", "lastname", "country"}

\* the backend stated an email for extractOne and the record does not have it
C3_Witness ==
  /\ FinishedOne /\ pc = "print"
  /\ (Payload["Email"] \in Strs \/ Payload["email"] \in Strs)
  /\ response = <<[f \in {"name", "lastname", "country"} |-> None]>>

\* C4: a payload in which every field of the record is missing or null is
\* accepted: extractOne returns the record with every field None and raises
\* nothing, and extractMany accepts such an object as an element.
C4_AllAbsentIsValid ==
  /\ (FinishedOne /\ Absent(Payload, LastRequest.schema.fields)) =>
       /\ pc # "crashed"
       /\ error = NoError
       /\ response = <<[f \in LastRequest.schema.fields |-> None]>>
  /\ (FinishedMany /\ Payload.people.tag = "list"
        /\ \A i \in 1..Len(Payload.people.items) :
              /\ Payload.people.items[i].isObj
              /\ Absent(Payload.people.items[i].obj, LastRequest.schema.fields)) =>
       /\ pc # "crashed"
       /\ error = NoError
       /\ response =
            <<[people |-> [i \in 1..Len(Payload.people.items) |->
                             [f \in LastRequest.schema.fields |-> None]]]>>

\* extractOne returned the all-None record from a payload with an explicit
\* null, then extractMany returned a collection holding an all-None record
C4_Witness ==
  /\ Len(stdout) >= 1
  /\ stdout[1].body = <<[f \in Person.fields |-> None]>>
  /\ FinishedMany /\ pc = "print"
  /\ Payload.people.tag = "list"
  /\ Len(Payload.people.items) >= 1
  /\ response[1].people[1] = [f \in Data.fields |-> None]

\* C5: an error of an extraction call is not caught, retried or suppressed:
\* once the backend answered the k-th request with an error, or with a
\* payload that fails validation, and the call has finished, the process has
\* terminated with that error, the k-th result is not printed (k - 1 results
\* are), k requests were sent and no step of the script remains.
C5_ErrorsTerminateTheProcess ==
  /\ (answer # <<>> /\ pc # "parse" /\ ~answer[1].ok) =>
       pc = "crashed" /\ error = "BackendError"
  /\ (Finished /\ ~Validate(LastRequest.schema, Payload).ok) =>
       pc = "crashed" /\ error = "ValidationError"
  /\ (pc = "crashed" /\ error \in {"BackendError", "ValidationError"}) =>
       /\ answer # <<>>
       /\ (error = "BackendError") = ~answer[1].ok
       /\ Len(requests) = k
       /\ Len(stdout) = k - 1
       /\ pending = {}
       /\ ~ENABLED Next

\* the second call failed after the first one was printed
C5_Witness ==
  /\ pc = "crashed" /\ error = "BackendError"
  /\ k = 2 /\ Len(stdout) = 1 /\ Len(requests) = 2

\* C6: every invocation sends exactly one request, whether it succeeds or
\* fails: the number of requests sent equals the number of invocations
\* started, it never exceeds 3, the i-th request is that of the i-th
\* invocation of the script, and a run that ends without error has sent
\* exactly the three requests single entity, list of entities, several users.
C6_OneRequestPerInvocation ==
  /\ Len(requests) <= 3
  /\ Len(requests) =
       (IF pc = "start" \/ error = "KeyError" THEN 0
        ELSE IF pc \in {"invoke", "done"} THEN k - 1 ELSE k)
  /\ \A i \in 1..Len(requests) :
       /\ i <= Len(Script)
       /\ requests[i].schema = Script[i].schema
       /\ requests[i].messages[2].content = Script[i].text
  /\ pc = "done" =>
       /\ error = NoError
       /\ Len(requests) = 3
       /\ requests[1].schema.title = "Person"
       /\ requests[1].messages[2].content = Comment1
       /\ requests[2].schema.title = "Data"
       /\ requests[2].messages[2].content = Comment2
       /\ requests[3].schema.title = "Data"
       /\ requests[3].messages[2].content = TextInput

C6_Witness == pc = "done" /\ Len(requests) = 3 /\ Len(stdout) = 3

\* C7 as stated: for a text without person information extractOne returns a
\* record whose fields are all None, whatever the backend answers.
C7_Original ==
  (FinishedOne /\ pc = "print" /\ ~HasPersonInfo(calls[1].text)) =>
     response = <<[f \in LastRequest.schema.fields |-> None]>>

\* C7 as amended: for every text, with or without person information, the
\* record extractOne returns holds what the backend's payload holds and
\* nothing else: a field is None exactly when the payload omits it or gives
\* null, and a field that is not None equals the payload's value.
C7_RecordHoldsOnlyPayloadValues ==
  (FinishedOne /\ pc = "print") =>
     /\ response # <<>>
     /\ \A f \in DOMAIN response[1] :
          /\ (response[1][f] = None) = (Payload[f] \in {Missing, None})
          /\ response[1][f] # None => response[1][f] = Payload[f]

\* a text without person information, a payload without values
C7_Witness ==
  /\ FinishedOne /\ pc = "print"
  /\ ~HasPersonInfo(calls[1].text)
  /\ calls[1].text # <<>>
  /\ Absent(Payload, LastRequest.schema.fields)
  /\ response = <<[f \in LastRequest.schema.fields |-> None]>>

\* C8: every request carries exactly two messages: the fixed system message,
\* then one human message whose content is the caller's text unchanged; the
\* model and the temperature are fixed, so that apart from the text only the
\* schema differs between requests, and it is the schema of the call.
C8_RequestMessages ==
  \A i \in 1..Len(requests) :
    /\ Len(requests[i].messages) = 2
    /\ requests[i].messages[1] = [role |-> "system", content |-> SystemMessage]
    /\ requests[i].messages[2] = [role |-> "human", content |-> calls[i].text]
    /\ requests[i].model = "llama-3.1-8b-instant"
    /\ requests[i].temperature = 0
    /\ requests[i].schema = calls[i].schema
    /\ DOMAIN requests[i] = {"model", "temperature", "messages", "schema"}

\* a request was sent for a text that holds a newline and a brace placeholder
C8_Witness ==
  /\ requests # <<>>
  /\ calls[1].text = <<"\n", Placeholder>>
  /\ calls[1].schema = Data

\* C9: at most one request is in flight, and only while the script is blocked
\* in the call; a request is sent only when every earlier result was printed;
\* the value the call returns is the validation of the backend's answer to
\* that call against that call's schema.
C9_OneRequestAtATime ==
  /\ Cardinality(pending) <= 1
  /\ pending # {} => pc = "blocked" /\ pending = {Len(requests)}
  /\ pc \in {"blocked", "parse", "print"} => Len(stdout) = Len(requests) - 1
  /\ pc \in {"invoke", "done"} => Len(stdout) = Len(requests)
  /\ pc = "print" =>
       /\ answer # <<>> /\ answer[1].ok
       /\ response = <<Validate(calls[Len(requests)].schema, Payload).value>>

\* the second request is in flight, the first result is printed
C9_Witness ==
  pc = "blocked" /\ pending = {2} /\ Len(requests) = 2 /\ Len(stdout) = 1

\* C10: in extractMany the field people is required: a payload without it, or
\* whose people value is null, not a list, or a list with an element that is
\* not an object, fails with a validation error; a payload with an empty
\* people list is accepted and returns the empty collection.
C10_PeopleIsRequired ==
  FinishedMany =>
    /\ Payload.people.tag # "list" => RaisedValidationError
    /\ (Payload.people.tag = "list" /\ ~AllObjects(Payload.people.items)) =>
         RaisedValidationError
    /\ (Payload.people.tag = "list" /\ Payload.people.items = <<>>) =>
         /\ pc # "crashed"
         /\ error = NoError
         /\ response = <<[people |-> <<>>]>>

\* the second call returned the empty collection, the third call failed on a
\* payload without the field people
C10_Witness ==
  /\ Len(stdout) = 2
  /\ stdout[2].body = <<[people |-> <<>>]>>
  /\ FinishedMany /\ RaisedValidationError
  /\ Payload.people.tag = "missing"

====
